---- MODULE Spec2Model ----
(***************************************************************************)
(* A model of the placement engine of src/scrabble_crossword.py: the      *)
(* dictionary, the board, the placement validator, the connectivity rule  *)
(* and the recursive backtracking solver with its wall-clock timeout.     *)
(*                                                                         *)
(* A word is a sequence of one-character strings; the board is a list of  *)
(* rows, indexed from 0 as in the code; ' ' is the empty cell.            *)
(***************************************************************************)
EXTENDS Integers, Sequences, FiniteSets, TLC

(* ------------------------------ bounds -------------------------------- *)

\* Boards of size 1..MaxN are explored.
MaxN == 3

\* Word lists hold at most MaxWords words.
MaxWords == 3

\* The wall clock takes the values 0..MaxClock.
MaxClock == 1

\* Only inputs whose first word has at most MaxBranch placements on the
\* empty board are explored (the order in which equal-score candidates are
\* tried is free, so a failing search visits every subset of them).
MaxBranch == 6

\* Equal-score candidates are tried in any order when they are at most
\* MaxTies, and in the enumeration's order from any first one otherwise.
MaxTies == 6

\* self.timeout as set by the constructor.
DefaultTimeout == 30

(* --------------------------- characters ------------------------------- *)

Empty == " "

\* str.upper() on one character.
Upper(ch) ==
    CASE ch = "a" -> "A"
      [] ch = "b" -> "B"
      [] OTHER -> ch

\* str.upper() on a word.
UpperWord(w) == [i \in 1..Len(w) |-> Upper(w[i])]

(* ----------------------------- Trie ----------------------------------- *)

\* Trie.insert for every word of word_list: all_words holds the uppercased words.
TrieOf(word_list) == {UpperWord(word_list[i]) : i \in 1..Len(word_list)}

\* Trie.contains
Contains(all_words, w) == UpperWord(w) \in all_words

(* ----------------------------- board ---------------------------------- *)

\* [[' ' for _ in range(n)] for _ in range(n)]
EmptyGrid(n) == [r \in 0..(n-1) |-> [c \in 0..(n-1) |-> Empty]]

\* A Python list index: i in -n..n-1 is accepted, a negative one counts from the end.
ValidIndex(n, i) == (0 - n) <= i /\ i < n

PyIndex(n, i) == IF i < 0 THEN i + n ELSE i

\* self.grid[r][c] raises IndexError unless both indices are accepted.
CanRead(n, r, c) == ValidIndex(n, r) /\ ValidIndex(n, c)

\* self.grid[r][c]
Get(g, n, r, c) == g[PyIndex(n, r)][PyIndex(n, c)]

OnBoard(n, r, c) == 0 <= r /\ r < n /\ 0 <= c /\ c < n

\* The row at which "while r >= 0 and self.grid[r][col] != ' ': r -= 1" stops.
RECURSIVE UpStop(_, _, _, _)
UpStop(g, n, r, col) ==
    IF r >= 0 /\ Get(g, n, r, col) # Empty THEN UpStop(g, n, r - 1, col) ELSE r

\* The row at which "while r < self.grid_size and self.grid[r][col] != ' ': r += 1" stops.
RECURSIVE DownStop(_, _, _, _)
DownStop(g, n, r, col) ==
    IF r < n /\ Get(g, n, r, col) # Empty THEN DownStop(g, n, r + 1, col) ELSE r

RECURSIVE LeftStop(_, _, _, _)
LeftStop(g, n, row, c) ==
    IF c >= 0 /\ Get(g, n, row, c) # Empty THEN LeftStop(g, n, row, c - 1) ELSE c

RECURSIVE RightStop(_, _, _, _)
RightStop(g, n, row, c) ==
    IF c < n /\ Get(g, n, row, c) # Empty THEN RightStop(g, n, row, c + 1) ELSE c

\* build_perpendicular_word: the letters before the cell, the placeholder, the
\* letters after it, in board order.
build_perpendicular_word(g, n, row, col, main_direction) ==
    IF main_direction = "across"
    THEN LET up   == UpStop(g, n, row - 1, col)
             down == DownStop(g, n, row + 1, col)
         IN  [i \in 1..(row - 1 - up) |-> Get(g, n, up + i, col)]
             \o <<"?">> \o
             [i \in 1..(down - row - 1) |-> Get(g, n, row + i, col)]
    ELSE LET left  == LeftStop(g, n, row, col - 1)
             right == RightStop(g, n, row, col + 1)
         IN  [i \in 1..(col - 1 - left) |-> Get(g, n, row, left + i)]
             \o <<"?">> \o
             [i \in 1..(right - col - 1) |-> Get(g, n, row, col + i)]

\* The cells build_perpendicular_word reads: every cell of the two scans, the
\* empty cell that ends a scan included.
PerpReads(g, n, row, col, main_direction) ==
    IF main_direction = "across"
    THEN LET up   == UpStop(g, n, row - 1, col)
             down == DownStop(g, n, row + 1, col)
         IN  {<<r, col>> : r \in ((IF up < 0 THEN 0 ELSE up)..(row - 1))
                               \cup ((row + 1)..(IF down >= n THEN n - 1 ELSE down))}
    ELSE LET left  == LeftStop(g, n, row, col - 1)
             right == RightStop(g, n, row, col + 1)
         IN  {<<row, c>> : c \in ((IF left < 0 THEN 0 ELSE left)..(col - 1))
                               \cup ((col + 1)..(IF right >= n THEN n - 1 ELSE right))}

\* perp_word.replace('?', char)
Replace(perp_word, char) ==
    [i \in 1..Len(perp_word) |-> IF perp_word[i] = "?" THEN char ELSE perp_word[i]]

(* ----------------------- PlacementValidator --------------------------- *)

\* The cell of letter i (0-based) of a word placed at (row, col).
CellOf(row, col, direction, i) ==
    IF direction = "across" THEN <<row, col + i>> ELSE <<row + i, col>>

\* Mutant: the conflict test is dropped.
Conflicts_Never(current_char, char) == FALSE

\* "if current_char != ' ' and current_char != char": the cell conflicts.
Conflicts(current_char, char) == current_char # Empty /\ current_char # char

\* Mutant: the dictionary test of the perpendicular word is dropped.
PerpInvalid_Never(all_words, perp_word) == FALSE

\* "if len(perp_word) > 1 and not self.trie.contains(perp_word)"
PerpInvalid(all_words, perp_word) ==
    Len(perp_word) > 1 /\ ~Contains(all_words, perp_word)

\* The loop "for i, char in enumerate(word)" of can_place_word_scrabble from
\* letter i on.  W is the uppercased word.  ret is "False" (a return False),
\* "IndexError" (a read outside the lists) or "pass" (the loop ran to its
\* end); reads are the cells read, as indexed.
RECURSIVE CheckLetters(_, _, _, _, _, _, _, _)
CheckLetters(g, n, all_words, W, row, col, direction, i) ==
    IF i >= Len(W)
    THEN [ret |-> "pass", reads |-> {}]
    ELSE LET cell     == CellOf(row, col, direction, i)
             curr_row == cell[1]
             curr_col == cell[2]
             char     == W[i + 1]
         IN  IF ~CanRead(n, curr_row, curr_col)
             THEN [ret |-> "IndexError", reads |-> {cell}]
             ELSE LET current_char == Get(g, n, curr_row, curr_col)
                      perp_word ==
                          Replace(build_perpendicular_word(g, n, curr_row, curr_col, direction), char)
                      perp_reads ==
                          IF current_char = Empty
                          THEN PerpReads(g, n, curr_row, curr_col, direction)
                          ELSE {}
                  IN  IF Conflicts(current_char, char)
                      THEN [ret |-> "False", reads |-> {cell}]
                      ELSE IF current_char = Empty /\ PerpInvalid(all_words, perp_word)
                      THEN [ret |-> "False", reads |-> {cell} \cup perp_reads]
                      ELSE LET rest == CheckLetters(g, n, all_words, W, row, col, direction, i + 1)
                           IN  [ret |-> rest.ret,
                                reads |-> {cell} \cup perp_reads \cup rest.reads]

\* One boundary test "guard and self.grid[r][c] != ' '": whether it is read,
\* whether the read raises, whether the cell is filled.
BoundaryCell(g, n, guard, r, c) ==
    IF ~guard THEN [ret |-> "pass", reads |-> {}]
    ELSE IF ~CanRead(n, r, c) THEN [ret |-> "IndexError", reads |-> {<<r, c>>}]
    ELSE IF Get(g, n, r, c) # Empty THEN [ret |-> "False", reads |-> {<<r, c>>}]
    ELSE [ret |-> "pass", reads |-> {<<r, c>>}]

\* Mutant: the boundary cells are not tested.
CheckBoundaries_Skipped(g, n, W, row, col, direction) == [ret |-> "pass", reads |-> {}]

\* "Check word boundaries (must be isolated)": the cell before the start, then
\* the cell after the end.
CheckBoundaries(g, n, W, row, col, direction) ==
    LET before == IF direction = "across"
                  THEN BoundaryCell(g, n, col > 0, row, col - 1)
                  ELSE BoundaryCell(g, n, row > 0, row - 1, col)
        after  == IF direction = "across"
                  THEN BoundaryCell(g, n, col + Len(W) < n, row, col + Len(W))
                  ELSE BoundaryCell(g, n, row + Len(W) < n, row + Len(W), col)
    IN  IF before.ret # "pass" THEN before
        ELSE [ret |-> after.ret, reads |-> before.reads \cup after.reads]

\* Mutant: the bounds test is dropped.
OutOfBounds_Never(n, W, row, col, direction) == FALSE

\* The bounds test that opens can_place_word_scrabble: TRUE when it returns False.
OutOfBounds(n, W, row, col, direction) ==
    IF direction = "across" THEN col + Len(W) > n ELSE row + Len(W) > n

\* can_place_word_scrabble with what it reads: ret is "True", "False" or
\* "IndexError".
CanPlaceTrace(g, n, all_words, word, row, col, direction) ==
    LET W == UpperWord(word)
    IN  IF OutOfBounds(n, W, row, col, direction)
        THEN [ret |-> "False", reads |-> {}]
        ELSE LET letters == CheckLetters(g, n, all_words, W, row, col, direction, 0)
             IN  IF letters.ret # "pass" THEN letters
                 ELSE LET ends == CheckBoundaries(g, n, W, row, col, direction)
                      IN  [ret   |-> IF ends.ret = "pass" THEN "True" ELSE ends.ret,
                           reads |-> letters.reads \cup ends.reads]

can_place_word_scrabble(g, n, all_words, word, row, col, direction) ==
    CanPlaceTrace(g, n, all_words, word, row, col, direction).ret = "True"

(* -------------------------- place_word -------------------------------- *)

\* place_word's writes to the grid.
PlaceOnGrid(g, n, word, row, col, direction) ==
    LET W == UpperWord(word)
    IN  [r \in 0..(n-1) |-> [c \in 0..(n-1) |->
            IF direction = "across"
            THEN IF r = PyIndex(n, row) /\ col <= c /\ c < col + Len(W)
                 THEN W[c - col + 1] ELSE g[r][c]
            ELSE IF c = PyIndex(n, col) /\ row <= r /\ r < row + Len(W)
                 THEN W[r - row + 1] ELSE g[r][c]]]

\* The entry place_word appends to placed_words.
Placement(word, row, col, direction) ==
    [word |-> UpperWord(word), row |-> row, col |-> col, direction |-> direction]

(* ------------------------ ConnectivityRule ---------------------------- *)

orthogonal_directions == {<<0 - 1, 0>>, <<1, 0>>, <<0, 0 - 1>>, <<0, 1>>}

\* Mutant: every candidate counts as connected.
has_connection_Always(g, n, placed, word, row, col, direction) == TRUE

\* has_connection_to_existing
has_connection_to_existing(g, n, placed, word, row, col, direction) ==
    IF Len(placed) = 0 THEN TRUE
    ELSE LET W == UpperWord(word)
         IN  \E i \in 0..(Len(W) - 1) :
                LET cell == CellOf(row, col, direction, i)
                IN  \/ Get(g, n, cell[1], cell[2]) = W[i + 1]
                    \/ \E d \in orthogonal_directions :
                          LET nr == cell[1] + d[1]
                              nc == cell[2] + d[2]
                          IN  OnBoard(n, nr, nc) /\ Get(g, n, nr, nc) # Empty

(* ------------------------- CandidateRanker ---------------------------- *)

\* The intersection count of _backtrack_solve: the positions whose cell holds
\* word[i], the word as it stands in self.words.
Intersections(g, n, word, row, col, direction) ==
    Cardinality({i \in 0..(Len(word) - 1) :
        LET cell == CellOf(row, col, direction, i)
        IN  Get(g, n, cell[1], cell[2]) = word[i + 1]})

Directions == {"across", "down"}

\* The (row, col, direction) triples _backtrack_solve enumerates.
Triples(n) == (0..(n-1)) \X (0..(n-1)) \X Directions

\* The validator's verdict and reads at every triple, in one pass.
Evaluate(g, n, all_words, word) ==
    {[row |-> t[1], col |-> t[2], direction |-> t[3],
      trace |-> CanPlaceTrace(g, n, all_words, word, t[1], t[2], t[3])] : t \in Triples(n)}

\* valid_placements of _backtrack_solve, before the sort, from the verdicts.
ValidFrom(verdicts, g, n, placed, word) ==
    {[row |-> e.row, col |-> e.col, direction |-> e.direction,
      intersections |-> Intersections(g, n, word, e.row, e.col, e.direction)] :
        e \in {x \in verdicts :
                  /\ x.trace.ret = "True"
                  /\ has_connection_to_existing(g, n, placed, word, x.row, x.col, x.direction)}}

ValidPlacements(g, n, all_words, placed, word) ==
    ValidFrom(Evaluate(g, n, all_words, word), g, n, placed, word)

\* Whether the enumeration raises: some validator call reads outside the lists.
EnumerationRaises(verdicts) == \E e \in verdicts : e.trace.ret = "IndexError"

\* Whether the enumeration reads a cell outside the board: among the
\* validator's reads or, for a triple the validator accepts, among the word's
\* own cells (read again by the connectivity rule and the intersection
\* count; the neighbours the connectivity rule reads are tested to be on the
\* board first).
EnumerationReadsOutside(verdicts, n, word) ==
    \E e \in verdicts :
        \/ \E cell \in e.trace.reads : ~OnBoard(n, cell[1], cell[2])
        \/ /\ e.trace.ret = "True"
           /\ \E i \in 0..(Len(word) - 1) :
                 LET cell == CellOf(e.row, e.col, e.direction, i)
                 IN  ~OnBoard(n, cell[1], cell[2])

\* The candidates with the most intersections: the sort puts them first
\* (key -x[3]).
FirstInOrder(candidates) ==
    LET counts == {p.intersections : p \in candidates}
        most   == CHOOSE m \in counts : \A k \in counts : k <= m
    IN  {p \in candidates : p.intersections = most}

\* The place of a candidate in the enumeration: rows, then columns, then
\* 'across' before 'down'.
Rank(n, p) == 2 * (n * p.row + p.col) + (IF p.direction = "across" THEN 0 ELSE 1)

\* The candidates the loop may try next; last is the candidate tried before,
\* if any.  random.random() orders the candidates of equal count freely, so
\* any candidate of the leading group may be tried next.  For a group of more
\* than MaxTies candidates only the orders that walk the group in the
\* enumeration's order, from any first candidate and wrapping around, are
\* explored: any candidate can still be the first one tried, and a failed
\* trial restores the grid and placed_words, so the boards the search
\* reaches and the results it returns are those of all orders.
TriedNext(n, candidates, last) ==
    LET group == FirstInOrder(candidates)
        begun == {l \in last : \E p \in group : p.intersections = l.intersections}
        later == {p \in group : \E l \in begun : Rank(n, p) > Rank(n, l)}
        from  == IF later # {} THEN later ELSE group
    IN  IF candidates = {} THEN {}
        ELSE IF Cardinality(group) <= MaxTies \/ begun = {} THEN group
        ELSE {p \in from : \A q \in from : Rank(n, p) <= Rank(n, q)}

(* --------------------------- constructor ------------------------------ *)

\* sorted(word_list, key=len, reverse=True): a stable sort, longest first.
RECURSIVE SortedByLen(_)
SortedByLen(word_list) ==
    IF Len(word_list) = 0 THEN <<>>
    ELSE LET rest == SortedByLen(Tail(word_list))
             w    == Head(word_list)
             \* w goes before the first word of rest that is not longer than w
             k    == Cardinality({i \in 1..Len(rest) : Len(rest[i]) > Len(w)})
         IN  SubSeq(rest, 1, k) \o <<w>> \o SubSeq(rest, k + 1, Len(rest))

Permutations_(m) == {f \in [1..m -> 1..m] : \A i, j \in 1..m : i # j => f[i] # f[j]}

\* Mutant: the shuffle reorders the whole list.
ShuffleOutcomes_All(sorted) ==
    {[i \in 1..Len(sorted) |-> sorted[f[i]]] : f \in Permutations_(Len(sorted))}

\* _shuffle_same_length_groups: every order random.shuffle can give each
\* group of consecutive words of equal length.
ShuffleOutcomes(sorted) ==
    {[i \in 1..Len(sorted) |-> sorted[f[i]]] :
        f \in {h \in Permutations_(Len(sorted)) :
                  \A i \in 1..Len(sorted) : Len(sorted[h[i]]) = Len(sorted[i])}}

(* ------------------------------ inputs -------------------------------- *)

\* The words the input lists are drawn from, shortest first: single
\* letters, a two-letter word in both cases and a three-letter word.
Vocabulary ==
    <<(<<"A">>), (<<"B">>), (<<"A", "B">>), (<<"a", "b">>), (<<"A", "B", "A">>)>>

\* The input lists: up to MaxWords words of the vocabulary, duplicates
\* allowed, in the order of the vocabulary (the constructor sorts its input by
\* length and shuffles within equal lengths, so the order of the input among
\* equal lengths does not reach the solver).
WordLists ==
    UNION {{[i \in 1..k |-> Vocabulary[f[i]]] :
               f \in {h \in [1..k -> 1..Len(Vocabulary)] :
                         \A i, j \in 1..k : i <= j => h[i] <= h[j]}} :
           k \in 0..MaxWords}

\* The number of candidates of the solver's first word on the empty board.
Branching(word_list, n) ==
    IF Len(word_list) = 0 THEN 0
    ELSE Cardinality(ValidPlacements(EmptyGrid(n), n, TrieOf(word_list), <<>>,
                                     SortedByLen(word_list)[1]))

(* ------------------------------ state --------------------------------- *)

VARIABLES
    word_list,      \* the constructor's argument
    grid_size,      \* self.grid_size
    trie,           \* self.trie.all_words
    words,          \* self.words
    timeout,        \* self.timeout
    grid,           \* self.grid
    placed_words,   \* self.placed_words
    start_time,     \* self.start_time
    clock,          \* the last value time.time() returned
    stack,          \* the frames of _backtrack_solve that are in their loop
    pc,             \* "idle", "call", "loop", "return", "done" or "raised"
    arg,            \* word_index of the call being entered
    ret,            \* the value the last finished call returned
    result,         \* what generate_puzzle returned
    oob,            \* whether a cell outside [0,N) x [0,N) has been read
    earlier,        \* the outcome of an engine run before on the same input, if any
    call            \* the last direct call of a method of the engine, if any

vars == <<word_list, grid_size, trie, words, timeout, grid, placed_words,
          start_time, clock, stack, pc, arg, ret, result, oob, earlier, call>>

config == <<word_list, grid_size, trie, words, timeout>>

\* ScrabbleCrossword.__init__ on (wl, n), with self.timeout then set to t,
\* when the clock reads now.
Constructed(wl, n, t, now) ==
    /\ word_list = wl
    /\ grid_size = n
    /\ trie = TrieOf(wl)
    /\ words \in ShuffleOutcomes(SortedByLen(wl))
    /\ timeout = t
    /\ grid = EmptyGrid(n)
    /\ placed_words = <<>>
    /\ start_time = 0
    /\ clock = now
    /\ stack = <<>>
    /\ pc = "idle"
    /\ arg = 0
    /\ ret = FALSE
    /\ result = FALSE
    /\ oob = FALSE
    /\ earlier = {}
    /\ call = {}

Init ==
    \E wl \in WordLists, n \in 1..MaxN, t \in {0, DefaultTimeout} :
        /\ Branching(wl, n) <= MaxBranch
        /\ Constructed(wl, n, t, 0)

(* ----------------------------- actions -------------------------------- *)

\* Mutant: the timeout check never fires.
TimedOut_Never(t, start, limit) == FALSE

\* "if time.time() - self.start_time > self.timeout", t the clock just read.
TimedOut(t, start, limit) == t - start > limit

\* Mutant: the search stops one word early.
AllPlaced_OneEarly(word_index, ws) == word_index + 1 >= Len(ws)

\* "if word_index >= len(self.words)"
AllPlaced(word_index, ws) == word_index >= Len(ws)

\* Mutant: the grid is not restored after a failed branch.
RestoredGrid_Kept(frame, g) == g

\* "self.grid = old_grid" and "self.placed_words = old_placed_words" of a frame.
RestoredGrid(frame, g) == frame.old_grid

\* Mutant: a failed branch leaves placed_words empty.
RestoredPlacedWords_Emptied(frame, placed) == << >>

RestoredPlacedWords(frame, placed) == frame.old_placed_words

\* generate_puzzle up to its call of _backtrack_solve(0): it reads the clock
\* into start_time.
GeneratePuzzle ==
    /\ pc = "idle"
    /\ \E t \in clock..MaxClock :
          /\ clock' = t
          /\ start_time' = t
    /\ arg' = 0
    /\ pc' = "call"
    /\ UNCHANGED <<config, earlier, call, grid, placed_words, stack, ret, result, oob>>

\* A frame of _backtrack_solve in its loop over valid_placements: the
\* candidates not tried yet, the one tried last (none at first) and the state
\* saved before the current trial.
Frame(word_index, candidates, last, g, placed) ==
    [word_index |-> word_index, valid_placements |-> candidates, last |-> last,
     old_grid |-> g, old_placed_words |-> placed]

\* _backtrack_solve(arg) from its entry to the start of its loop: the timeout
\* check, the test for the last word, the enumeration and the sort.  The
\* verdicts of the enumeration are those of the validator on the current
\* grid; they are used only when the two tests let the enumeration run.
BacktrackSolveEntry ==
    /\ pc = "call"
    /\ \E verdicts \in {IF AllPlaced(arg, words)
                         THEN {}
                         ELSE Evaluate(grid, grid_size, trie, words[arg + 1])} :
       \E t \in clock..MaxClock :
          /\ clock' = t
          /\ IF TimedOut(t, start_time, timeout)
             THEN /\ ret' = FALSE
                  /\ pc' = "return"
                  /\ UNCHANGED <<stack, oob>>
             ELSE IF AllPlaced(arg, words)
             THEN /\ ret' = TRUE
                  /\ pc' = "return"
                  /\ UNCHANGED <<stack, oob>>
             ELSE /\ oob' = (oob \/ EnumerationReadsOutside(verdicts, grid_size,
                                                             words[arg + 1]))
                  /\ IF EnumerationRaises(verdicts)
                     THEN /\ pc' = "raised"
                          /\ UNCHANGED <<stack, ret>>
                     ELSE /\ stack' = Append(stack,
                                  Frame(arg,
                                        ValidFrom(verdicts, grid, grid_size,
                                                  placed_words, words[arg + 1]),
                                        {}, grid, placed_words))
                          /\ pc' = "loop"
                          /\ UNCHANGED ret
    /\ UNCHANGED <<config, earlier, call, grid, placed_words, start_time, arg, result>>

\* Mutant: the loop does not move on to the next candidate.
Remaining_Same(candidates, p) == candidates

\* "for row, col, direction, intersections in valid_placements": the
\* candidates left once the loop has taken p.
Remaining(candidates, p) == candidates \ {p}

\* One turn of the loop: save the state, place the word, call
\* _backtrack_solve(word_index + 1).
TryPlacement ==
    /\ pc = "loop"
    /\ LET top == stack[Len(stack)]
           word == words[top.word_index + 1]
       IN  \E p \in TriedNext(grid_size, top.valid_placements, top.last) :
              /\ stack' = [stack EXCEPT ![Len(stack)] =
                              Frame(top.word_index, Remaining(top.valid_placements, p),
                                    {p}, grid, placed_words)]
              /\ grid' = PlaceOnGrid(grid, grid_size, word, p.row, p.col, p.direction)
              /\ placed_words' = Append(placed_words,
                                        Placement(word, p.row, p.col, p.direction))
              /\ arg' = top.word_index + 1
    /\ pc' = "call"
    /\ UNCHANGED <<config, earlier, call, start_time, clock, ret, result, oob>>

\* The loop has no candidate left: return False.
LoopExhausted ==
    /\ pc = "loop"
    /\ stack[Len(stack)].valid_placements = {}
    /\ stack' = SubSeq(stack, 1, Len(stack) - 1)
    /\ ret' = FALSE
    /\ pc' = "return"
    /\ UNCHANGED <<config, earlier, call, grid, placed_words, start_time, clock, arg, result, oob>>

\* The recursive call returned True: return True.
PropagateSuccess ==
    /\ pc = "return"
    /\ Len(stack) > 0
    /\ ret = TRUE
    /\ stack' = SubSeq(stack, 1, Len(stack) - 1)
    /\ UNCHANGED <<config, earlier, call, grid, placed_words, start_time, clock, pc, arg, ret, result, oob>>

\* The recursive call returned False: restore the saved state and go on with
\* the loop.
Backtrack ==
    /\ pc = "return"
    /\ Len(stack) > 0
    /\ ret = FALSE
    /\ grid' = RestoredGrid(stack[Len(stack)], grid)
    /\ placed_words' = RestoredPlacedWords(stack[Len(stack)], placed_words)
    /\ pc' = "loop"
    /\ UNCHANGED <<config, earlier, call, start_time, clock, stack, arg, ret, result, oob>>

\* _backtrack_solve(0) returned: generate_puzzle reads the clock and returns.
GeneratePuzzleReturn ==
    /\ pc = "return"
    /\ Len(stack) = 0
    /\ \E t \in clock..MaxClock : clock' = t
    /\ result' = ret
    /\ pc' = "done"
    /\ UNCHANGED <<config, earlier, call, grid, placed_words, start_time, stack, arg, ret, oob>>

Next ==
    \/ GeneratePuzzle
    \/ BacktrackSolveEntry
    \/ TryPlacement
    \/ LoopExhausted
    \/ PropagateSuccess
    \/ Backtrack
    \/ GeneratePuzzleReturn

Spec == Init /\ [][Next]_vars

(* ===================== properties of the engine ======================= *)

\* The cell of letter i (1-based) of a recorded placement.
PCell(p, i) == CellOf(p.row, p.col, p.direction, i - 1)

PCells(p) == {PCell(p, i) : i \in 1..Len(p.word)}

Last(seq) == seq[Len(seq)]

\* A step that applies a placement: place_word appended one entry.
Commits == Len(placed_words') = Len(placed_words) + 1

AllCells(n) == (0..(n-1)) \X (0..(n-1))

Occupied(g, n) == {cell \in AllCells(n) : g[cell[1]][cell[2]] # Empty}

(* ------------------------------- C1 ----------------------------------- *)

\* Every two recorded placements agree on every cell both cover.
PlacementsAgree ==
    \A a, b \in 1..Len(placed_words) :
        \A i \in 1..Len(placed_words[a].word), j \in 1..Len(placed_words[b].word) :
            PCell(placed_words[a], i) = PCell(placed_words[b], j)
                => placed_words[a].word[i] = placed_words[b].word[j]

\* A step that applies a placement leaves every filled cell as it was.
KeepsFilledCells ==
    Commits => \A cell \in Occupied(grid, grid_size) :
                  grid'[cell[1]][cell[2]] = grid[cell[1]][cell[2]]

\* C1: no silent overwrite.  In every reachable state the placements of
\* placed_words that cover a common cell put the same letter on it, and no
\* step that applies a placement changes the letter of a filled cell.
C1_NoSilentOverwrite == []PlacementsAgree /\ [][KeepsFilledCells]_vars

\* Two recorded placements cover a common cell.
C1_Witness ==
    \E a, b \in 1..Len(placed_words) :
        a # b /\ PCells(placed_words[a]) \cap PCells(placed_words[b]) # {}

(* ------------------------------- C2 ----------------------------------- *)

\* The board after writing the first k recorded placements, in order, onto
\* the empty board.
RECURSIVE Replay(_, _, _)
Replay(placed, n, k) ==
    IF k = 0 THEN EmptyGrid(n)
    ELSE LET before == Replay(placed, n, k - 1)
             p      == placed[k]
         IN  [r \in 0..(n-1) |-> [c \in 0..(n-1) |->
                 IF \E i \in 1..Len(p.word) : PCell(p, i) = <<r, c>>
                 THEN p.word[CHOOSE i \in 1..Len(p.word) : PCell(p, i) = <<r, c>>]
                 ELSE before[r][c]]]

\* C2: reconstruction round trip.  In every reachable state, replaying
\* placed_words in recorded order onto an empty board gives exactly the grid.
C2_ReconstructionRoundTrip == Replay(placed_words, grid_size, Len(placed_words)) = grid

\* A failed branch has been restored below an applied placement: the loop of
\* a frame has fewer candidates left than it enumerated, on a non-empty board.
C2_Witness ==
    /\ pc = "loop"
    /\ Len(placed_words) > 0
    /\ Occupied(grid, grid_size) # {}
    /\ Last(stack).valid_placements #
          ValidPlacements(grid, grid_size, trie, placed_words,
                          words[Last(stack).word_index + 1])

(* ------------------------------- C3 ----------------------------------- *)

\* The maximal run of letters of g through cell along the axis orthogonal to
\* direction, in board order (cell itself holds a letter).
RECURSIVE RunStart(_, _, _, _)
RunStart(g, n, cell, step) ==
    LET prev == <<cell[1] - step[1], cell[2] - step[2]>>
    IN  IF OnBoard(n, prev[1], prev[2]) /\ g[prev[1]][prev[2]] # Empty
        THEN RunStart(g, n, prev, step) ELSE cell

RECURSIVE RunFrom(_, _, _, _)
RunFrom(g, n, cell, step) ==
    IF OnBoard(n, cell[1], cell[2]) /\ g[cell[1]][cell[2]] # Empty
    THEN <<g[cell[1]][cell[2]]>> \o RunFrom(g, n, <<cell[1] + step[1], cell[2] + step[2]>>, step)
    ELSE <<>>

PerpendicularRun(g, n, cell, direction) ==
    LET step == IF direction = "across" THEN <<1, 0>> ELSE <<0, 1>>
    IN  RunFrom(g, n, RunStart(g, n, cell, step), step)

\* The Dictionary: the uppercased input words.
Dictionary == {UpperWord(word_list[i]) : i \in 1..Len(word_list)}

PerpendicularValidAtCommit ==
    Commits =>
        LET p == Last(placed_words')
        IN  \A i \in 1..Len(p.word) :
               LET cell == PCell(p, i)
               IN  grid[cell[1]][cell[2]] = Empty =>
                      LET run == PerpendicularRun(grid', grid_size, cell, p.direction)
                      IN  Len(run) = 1 \/ run \in Dictionary

\* C3: perpendicular validity at commit.  For every placement the solver
\* applies and every position of it whose cell was empty just before, the
\* run of letters orthogonal to the placement through that cell has length 1
\* or is a word of the Dictionary.
C3_PerpendicularValidity == [][PerpendicularValidAtCommit]_vars

\* A placement was just applied that put a new letter into a perpendicular
\* run of two or more letters.
C3_Witness ==
    /\ pc = "call"
    /\ Len(stack) > 0
    /\ Len(placed_words) > 0
    /\ LET p == Last(placed_words)
       IN  \E i \in 1..Len(p.word) :
              LET cell == PCell(p, i)
              IN  /\ Last(stack).old_grid[cell[1]][cell[2]] = Empty
                  /\ Len(PerpendicularRun(grid, grid_size, cell, p.direction)) > 1

(* ------------------------------- C4 ----------------------------------- *)

Neighbours(n, cell) ==
    {c \in AllCells(n) :
        \/ (c[1] = cell[1] /\ (c[2] = cell[2] + 1 \/ c[2] = cell[2] - 1))
        \/ (c[2] = cell[2] /\ (c[1] = cell[1] + 1 \/ c[1] = cell[1] - 1))}

\* Placement p touches board g: a position whose cell holds its letter, or a
\* position with an occupied orthogonal neighbour.
Touches(g, n, p) ==
    \E i \in 1..Len(p.word) :
        LET cell == PCell(p, i)
        IN  \/ g[cell[1]][cell[2]] = p.word[i]
            \/ \E c \in Neighbours(n, cell) : g[c[1]][c[2]] # Empty

ConnectedAtCommit ==
    (Commits /\ Len(placed_words) > 0) => Touches(grid, grid_size, Last(placed_words'))

\* C4: connectivity at commit.  Every placement applied while placed_words is
\* non-empty touches the board as it is just before the placement is applied,
\* whichever candidate of its level it is.
C4_ConnectivityAtCommit == [][ConnectedAtCommit]_vars

\* A later candidate of a level was just applied on a non-empty board: the
\* frame had tried and restored another candidate before it.
C4_Witness ==
    /\ pc = "call"
    /\ Len(stack) > 0
    /\ Len(placed_words) > 1
    /\ LET top == Last(stack)
       IN  Cardinality(top.valid_placements) + 1 <
              Cardinality(ValidPlacements(top.old_grid, grid_size, trie,
                                          top.old_placed_words, words[top.word_index + 1]))

(* ------------------------------- C5 ----------------------------------- *)

\* A cell that is off the board or empty.
Free(g, n, cell) == ~OnBoard(n, cell[1], cell[2]) \/ g[cell[1]][cell[2]] = Empty

\* The cell before the first letter and the cell after the last letter of p,
\* along its axis, are free on g.
EndsFree(g, n, p) ==
    /\ Free(g, n, CellOf(p.row, p.col, p.direction, 0 - 1))
    /\ Free(g, n, CellOf(p.row, p.col, p.direction, Len(p.word)))

\* C5 as stated: end isolation in the result.  When generate_puzzle returns
\* success, both end cells of every recorded placement are free on the final
\* board.
C5_EndIsolationInResult ==
    (pc = "done" /\ result) =>
        \A k \in 1..Len(placed_words) : EndsFree(grid, grid_size, placed_words[k])

EndsFreeAtCommit ==
    Commits => /\ EndsFree(grid, grid_size, Last(placed_words'))
               /\ EndsFree(grid', grid_size, Last(placed_words'))

\* C5 amended: end isolation at commit.  Both end cells of a placement are
\* free on the board just before and just after the placement is applied.
C5_EndIsolationAtCommit == [][EndsFreeAtCommit]_vars

\* A successful result in which a word placed later fills an end cell of an
\* earlier placement.
C5_Witness ==
    /\ pc = "done"
    /\ result
    /\ \E k \in 1..Len(placed_words) : ~EndsFree(grid, grid_size, placed_words[k])

(* ------------------------------- C6 ----------------------------------- *)

\* The cells of S joined to the cells of seen by orthogonal steps inside S.
RECURSIVE Component(_, _, _)
Component(seen, S, n) ==
    LET more == {c \in S \ seen : \E d \in seen : c \in Neighbours(n, d)}
    IN  IF more = {} THEN seen ELSE Component(seen \cup more, S, n)

FourConnected(S, n) ==
    S = {} \/ Component({CHOOSE c \in S : TRUE}, S, n) = S

\* C6: orthogonally connected cluster.  In every reachable state the occupied
\* cells of the grid are 4-connected.
C6_ConnectedCluster == FourConnected(Occupied(grid, grid_size), grid_size)

\* A successful result of three placements that is not a single line of cells.
C6_Witness ==
    /\ pc = "done"
    /\ result
    /\ Len(placed_words) = 3
    /\ \E a, b \in Occupied(grid, grid_size) : a[1] # b[1] /\ a[2] # b[2]

(* ------------------------------- C7 ----------------------------------- *)

Count(seq, w) == Cardinality({i \in 1..Len(seq) : UpperWord(seq[i]) = w})

\* C7: output on success.  When generate_puzzle returns True, placed_words
\* has len(words) entries, entry i records the uppercased word i of
\* self.words, and every input word is recorded as often as the input holds it.
C7_OutputOnSuccess ==
    (pc = "done" /\ result) =>
        /\ Len(placed_words) = Len(words)
        /\ \A i \in 1..Len(words) : placed_words[i].word = UpperWord(words[i])
        /\ \A i \in 1..Len(word_list) :
              Cardinality({k \in 1..Len(placed_words) :
                              placed_words[k].word = UpperWord(word_list[i])})
                 = Count(word_list, UpperWord(word_list[i]))

\* A successful result for a list of three words that holds a word twice and
\* a word in lower case.
C7_Witness ==
    /\ pc = "done"
    /\ result
    /\ Len(word_list) = 3
    /\ \E i, j \in 1..Len(word_list) : i # j /\ UpperWord(word_list[i]) = UpperWord(word_list[j])
    /\ \E i \in 1..Len(word_list) : word_list[i] # UpperWord(word_list[i])

(* ------------------------------- C8 ----------------------------------- *)

\* C8 as stated: timeout zero.  With timeout = 0 generate_puzzle does not
\* raise and returns failure, whatever the first timeout check reads, and the
\* grid is the replay of placed_words afterwards.
C8_TimeoutZeroFails ==
    timeout = 0 =>
        /\ pc # "raised"
        /\ pc = "done" =>
              /\ result = FALSE
              /\ Replay(placed_words, grid_size, Len(placed_words)) = grid

\* The first timeout check, of _backtrack_solve(0), reads an elapsed time
\* above 0: the call returns False at once and changes nothing.
FirstCheckFires ==
    (pc = "call" /\ arg = 0 /\ timeout = 0 /\ clock' - start_time > 0) =>
        /\ pc' = "return"
        /\ ret' = FALSE
        /\ UNCHANGED <<grid, placed_words, stack>>

TimeoutZeroOutcome ==
    timeout = 0 =>
        /\ pc # "raised"
        /\ (pc = "return" /\ Len(stack) = 0 /\ clock - start_time > 0) => ret = FALSE
        /\ pc = "done" =>
              /\ result = ret
              /\ Replay(placed_words, grid_size, Len(placed_words)) = grid

\* C8 amended: with timeout = 0 generate_puzzle does not raise and leaves the
\* grid equal to the replay of placed_words; it returns failure when the first
\* timeout check (or any later one) reads an elapsed time above 0.  A check
\* that reads 0 does not fire.
C8_TimeoutZeroAmended == []TimeoutZeroOutcome /\ [][FirstCheckFires]_vars

\* A run with timeout = 0 that failed on a non-empty list after the clock
\* had advanced.
C8_Witness ==
    /\ timeout = 0
    /\ pc = "done"
    /\ result = FALSE
    /\ Len(words) > 0
    /\ clock - start_time > 0

(* ------------------------------- C10 ---------------------------------- *)

TooLong(w) == Len(w) > grid_size

\* C10: word longer than N.  If the input holds a word longer than N,
\* generate_puzzle does not raise, reads no cell outside the board, does not
\* return success, and the validator accepts that word nowhere.
C10_WordLongerThanN ==
    (\E i \in 1..Len(word_list) : TooLong(word_list[i])) =>
        /\ pc # "raised"
        /\ ~oob
        /\ pc = "done" => result = FALSE
        /\ \A i \in 1..Len(word_list) : TooLong(word_list[i]) =>
              \A t \in Triples(grid_size) :
                 ~can_place_word_scrabble(grid, grid_size, trie, word_list[i], t[1], t[2], t[3])

\* A run without timeout that failed on a list of several words, one of them
\* longer than the board.
C10_Witness ==
    /\ pc = "done"
    /\ result = FALSE
    /\ timeout = DefaultTimeout
    /\ Len(word_list) > 1
    /\ \E i \in 1..Len(word_list) : TooLong(word_list[i])

(* ------------------------------- C9 ----------------------------------- *)

\* The scenario: words = [CAT, CAR, ARC] on a board of 10 x 10, with the
\* constructor's timeout.  No reading of the clock reaches that timeout, so
\* the run is started at the clock's last reading; a run started earlier
\* differs only in the values clock takes.
InitScenario ==
    Constructed(<<(<<"C", "A", "T">>), (<<"C", "A", "R">>), (<<"A", "R", "C">>)>>,
                10, DefaultTimeout, MaxClock)

SpecScenario == InitScenario /\ [][Next]_vars

\* C9: the scenario.  Every run returns success with exactly 3 entries in
\* placed_words, two of which share a cell.
C9_Scenario ==
    pc = "done" =>
        /\ result = TRUE
        /\ Len(placed_words) = 3
        /\ \E a, b \in 1..Len(placed_words) :
              a # b /\ PCells(placed_words[a]) \cap PCells(placed_words[b]) # {}

\* A run of the scenario that succeeded: the three words are on the board,
\* on fewer cells than their nine letters.
C9_Witness ==
    /\ pc = "done"
    /\ result = TRUE
    /\ grid_size = 10
    /\ Len(placed_words) = 3
    /\ Cardinality(Occupied(grid, grid_size)) < 9

(* ------------------------------- C11 ---------------------------------- *)

\* The words of the lists that hold the empty word, shortest first.
VocabularyWithEmpty == <<(<< >>), (<<"A">>), (<<"A", "B">>)>>

\* The input lists of up to MaxWords words that hold the empty word at least
\* once, in the order of that vocabulary.
WordListsWithEmpty ==
    UNION {{[i \in 1..k |-> VocabularyWithEmpty[f[i]]] :
               f \in {h \in [1..k -> 1..Len(VocabularyWithEmpty)] :
                         /\ \A i, j \in 1..k : i <= j => h[i] <= h[j]
                         /\ h[1] = 1}} :
           k \in 1..MaxWords}

\* An engine constructed on a list that holds the empty word.
InitEmptyWord ==
    \E wl \in WordListsWithEmpty, n \in 1..MaxN, t \in {0, DefaultTimeout} :
        /\ Branching(wl, n) <= MaxBranch
        /\ Constructed(wl, n, t, 0)

SpecEmptyWord == InitEmptyWord /\ [][Next]_vars

\* C11: empty word.  When generate_puzzle has returned on a list that holds
\* an empty word, it has returned failure, and the validator accepts the
\* empty word at no position; also when the empty word is the only word.
C11_EmptyWordFails ==
    (pc = "done" /\ \E i \in 1..Len(word_list) : Len(word_list[i]) = 0) =>
        /\ result = FALSE
        /\ \A t \in Triples(grid_size) :
              ~can_place_word_scrabble(grid, grid_size, trie, << >>, t[1], t[2], t[3])

(* ------------------------------- C12 ---------------------------------- *)

\* A second engine is constructed on the same word list, board size and
\* timeout once the first has returned; the outcome of the first is kept in
\* earlier.  The constructor takes no seed: the shuffle and the tie-breaks of
\* the second engine are drawn anew from the random module, and its clock
\* readings follow those of the first.
ConstructAgain ==
    /\ pc = "done"
    /\ earlier = {}
    /\ earlier' = {[result |-> result, grid |-> grid, placed_words |-> placed_words]}
    /\ words' \in ShuffleOutcomes(SortedByLen(word_list))
    /\ grid' = EmptyGrid(grid_size)
    /\ placed_words' = <<>>
    /\ start_time' = 0
    /\ stack' = <<>>
    /\ pc' = "idle"
    /\ arg' = 0
    /\ ret' = FALSE
    /\ result' = FALSE
    /\ UNCHANGED <<word_list, grid_size, trie, timeout, clock, oob, call>>

NextTwoRuns == Next \/ ConstructAgain

SpecTwoRuns == Init /\ [][NextTwoRuns]_vars

\* C12: determinism.  Two runs of the engine on the same word list, board
\* size and timeout end with the same result flag, the same grid and the same
\* placed_words.
C12_Determinism ==
    (pc = "done" /\ earlier # {}) =>
        \A e \in earlier :
            /\ result = e.result
            /\ grid = e.grid
            /\ placed_words = e.placed_words

(* ------------------- direct calls of the engine's methods -------------- *)

\* The coordinates a direct call of the validator is tried with: from below
\* -N to above N on either axis.
Coordinates(n) == (0 - n - 1)..(n + 1)

\* can_place_word_scrabble(word, row, col, direction) called on the engine
\* while no search is running, on the grid as it stands; call records the
\* arguments, what the call returned or raised, and whether it read (or tried
\* to read) a cell outside [0,N) x [0,N).
CanPlaceCall ==
    /\ pc \in {"idle", "done"}
    /\ call = {}
    /\ \E i \in 1..Len(Vocabulary), row \in Coordinates(grid_size),
          col \in Coordinates(grid_size), direction \in Directions :
          LET trace == CanPlaceTrace(grid, grid_size, trie, Vocabulary[i],
                                     row, col, direction)
          IN  call' = {[op |-> "can_place_word_scrabble", word |-> Vocabulary[i],
                        row |-> row, col |-> col, direction |-> direction,
                        ret |-> trace.ret,
                        outside |-> \E cell \in trace.reads :
                                       ~OnBoard(grid_size, cell[1], cell[2])]}
    /\ UNCHANGED <<config, earlier, grid, placed_words, start_time, clock, stack,
                   pc, arg, ret, result, oob>>

\* abs()
Abs(x) == IF x < 0 THEN 0 - x ELSE x

\* distance_to_center of find_best_placement for the uppercased word W.
distance_to_center(n, W, row, col, direction) ==
    LET center_row == n \div 2
        center_col == n \div 2
        word_center_row == IF direction = "across" THEN row ELSE row + (Len(W) \div 2)
        word_center_col == IF direction = "across" THEN col + (Len(W) \div 2) ELSE col
    IN  Abs(word_center_row - center_row) + Abs(word_center_col - center_col)

\* connected_placements of find_best_placement: the word is uppercased
\* first, so the validator, the connectivity rule and the intersection count
\* all see the uppercased word; the last field is -distance_to_center.
connected_placements(g, n, all_words, placed, word) ==
    LET W == UpperWord(word)
    IN  {[row |-> t[1], col |-> t[2], direction |-> t[3],
          intersections |-> Intersections(g, n, W, t[1], t[2], t[3]),
          neg_distance |-> 0 - distance_to_center(n, W, t[1], t[2], t[3])] :
            t \in {x \in Triples(n) :
                      /\ can_place_word_scrabble(g, n, all_words, W, x[1], x[2], x[3])
                      /\ has_connection_to_existing(g, n, placed, W, x[1], x[2], x[3])}}

\* The sort key (-x[3], x[4], random.random()) without its random part:
\* whether candidate a is not after candidate b.
KeyNotAfter(a, b) ==
    \/ (0 - a.intersections) < (0 - b.intersections)
    \/ /\ a.intersections = b.intersections
       /\ a.neg_distance <= b.neg_distance

\* The candidates the ascending sort may put first.
SortedFirst(candidates) == {a \in candidates : \A b \in candidates : KeyNotAfter(a, b)}

\* find_best_placement(word) called on the engine while no search is
\* running; call records the word and the triple returned, or None.
FindBestPlacementCall ==
    /\ pc \in {"idle", "done"}
    /\ call = {}
    /\ \E i \in 1..Len(Vocabulary) :
          \E found \in {connected_placements(grid, grid_size, trie, placed_words,
                                              Vocabulary[i])} :
             IF found = {}
             THEN call' = {[op |-> "find_best_placement", word |-> Vocabulary[i],
                            row |-> 0, col |-> 0, direction |-> "across",
                            ret |-> "None", outside |-> FALSE]}
             ELSE \E best \in SortedFirst(found) :
                     call' = {[op |-> "find_best_placement", word |-> Vocabulary[i],
                               row |-> best.row, col |-> best.col,
                               direction |-> best.direction,
                               ret |-> "found", outside |-> FALSE]}
    /\ UNCHANGED <<config, earlier, grid, placed_words, start_time, clock, stack,
                   pc, arg, ret, result, oob>>

\* Engines on lists of fewer than MaxWords words, run without timeout at one
\* reading of the clock, whose methods are also called directly.
InitCalls ==
    \E wl \in WordLists, n \in 1..MaxN :
        /\ Len(wl) < MaxWords
        /\ Branching(wl, n) <= MaxBranch
        /\ Constructed(wl, n, DefaultTimeout, MaxClock)

\* The caller drops what the call returned; the engine is as it was before
\* the call.
CallReturn ==
    /\ call # {}
    /\ call' = {}
    /\ UNCHANGED <<config, earlier, grid, placed_words, start_time, clock, stack,
                   pc, arg, ret, result, oob>>

\* The engine is used from one thread: a method is called when the previous
\* call has returned.
NextCalls == (call = {} /\ Next) \/ CanPlaceCall \/ FindBestPlacementCall \/ CallReturn

SpecCalls == InitCalls /\ [][NextCalls]_vars

(* ------------------------------- C13 ---------------------------------- *)

\* C13: validator bounds.  A direct call of can_place_word_scrabble with any
\* word and any integers row, col does not raise and reads no cell outside
\* the board, and returns True only if every cell the word would cover lies
\* on the board.
C13_ValidatorBounds ==
    \A c \in call :
        c.op = "can_place_word_scrabble" =>
            /\ c.ret # "IndexError"
            /\ ~c.outside
            /\ c.ret = "True" =>
                  \A i \in 0..(Len(c.word) - 1) :
                      LET cell == CellOf(c.row, c.col, c.direction, i)
                      IN  OnBoard(grid_size, cell[1], cell[2])

(* ------------------------------- C14 ---------------------------------- *)

\* The placement a frame has applied and not yet undone: its word at the
\* candidate it tried last.
Applied(frame) ==
    LET p == CHOOSE q \in frame.last : TRUE
    IN  Placement(words[frame.word_index + 1], p.row, p.col, p.direction)

\* placed_words at the entry of the call at depth k (the outermost call has
\* depth 1): the placements applied by the k - 1 enclosing calls, outermost
\* first.
EntryPlacedWords(k) == [j \in 1..(k - 1) |-> Applied(stack[j])]

\* The grid at the entry of the call at depth k: the empty board with those
\* placements written in order.
EntryGrid(k) == Replay(EntryPlacedWords(k), grid_size, k - 1)

\* C14: exact restore.  Whenever a call of _backtrack_solve is back in its
\* loop after a failed candidate, or has returned failure (timeout or
\* exhausted loop), grid and placed_words equal their values at the entry of
\* that call; a generate_puzzle that returns failure leaves an empty grid and
\* an empty placed_words.
C14_ExactRestore ==
    /\ pc = "loop" =>
          /\ placed_words = EntryPlacedWords(Len(stack))
          /\ grid = EntryGrid(Len(stack))
    /\ (pc = "return" /\ ret = FALSE) =>
          /\ placed_words = EntryPlacedWords(Len(stack) + 1)
          /\ grid = EntryGrid(Len(stack) + 1)
    /\ (pc = "done" /\ result = FALSE) =>
          /\ placed_words = << >>
          /\ grid = EmptyGrid(grid_size)

\* A call at depth two or more is back in its loop after a candidate of its
\* own failed, on a non-empty board.
C14_Witness ==
    /\ pc = "loop"
    /\ Len(stack) >= 2
    /\ Last(stack).last # {}
    /\ Occupied(grid, grid_size) # {}

(* ------------------------------- C15 ---------------------------------- *)

\* There are placements of words[i], words[i+1], ... in this order, each
\* passing the validator and the connectivity rule on the board the earlier
\* ones produced from g.
RECURSIVE Feasible(_, _, _)
Feasible(g, placed, i) ==
    IF i > Len(words) THEN TRUE
    ELSE \E t \in Triples(grid_size) :
            /\ can_place_word_scrabble(g, grid_size, trie, words[i], t[1], t[2], t[3])
            /\ has_connection_to_existing(g, grid_size, placed, words[i], t[1], t[2], t[3])
            /\ Feasible(PlaceOnGrid(g, grid_size, words[i], t[1], t[2], t[3]),
                        Append(placed, Placement(words[i], t[1], t[2], t[3])),
                        i + 1)

\* The timeout check cannot have fired in the run that ended: the timeout
\* exceeds every reading of the clock, or the clock still reads start_time.
NeverTimedOut == timeout > MaxClock \/ clock = start_time

\* C15: search completeness.  When the timeout check never fired,
\* generate_puzzle returns success exactly when a sequence of placements of
\* self.words in order exists, each valid and connected on the board of the
\* earlier ones; it returns failure only when there is none.
C15_SearchCompleteness ==
    (pc = "done" /\ NeverTimedOut) =>
        (result = Feasible(EmptyGrid(grid_size), << >>, 1))

\* A run without timeout ended in failure after a search: the first of two
\* or more words had candidates on the empty board.
C15_Witness ==
    /\ pc = "done"
    /\ NeverTimedOut
    /\ result = FALSE
    /\ Len(words) >= 2
    /\ ValidPlacements(EmptyGrid(grid_size), grid_size, trie, << >>, words[1]) # {}

(* ------------------------------- C16 ---------------------------------- *)

\* The timeout check of the run in progress has fired: the clock was last
\* read by a check, and that reading is beyond the timeout (the clock never
\* goes backwards, so every later check fires too).
CheckHasFired ==
    /\ pc \in {"call", "loop", "return"}
    /\ TimedOut(clock, start_time, timeout)

\* A step that starts a candidate enumeration: a call enters its loop.
StartsEnumeration == Len(stack') > Len(stack)

\* C16: cancellation.  Once the timeout check has fired, no step of the run
\* applies a candidate to the board and no step starts a candidate
\* enumeration, until generate_puzzle returns failure.
C16_Cancellation ==
    [][CheckHasFired => (~Commits /\ ~StartsEnumeration)]_vars

(* ------------------------------- C17 ---------------------------------- *)

\* The interpreter keeps running the call in progress: a step that can be
\* taken is eventually taken.
SpecLive == Init /\ [][Next]_vars /\ WF_vars(Next)

\* The number of calls of _backtrack_solve in progress: one per frame in its
\* loop, and the call that has just been made.
Depth == Len(stack) + (IF pc = "call" THEN 1 ELSE 0)

DepthBounded == Depth <= Len(words) + 1

\* A step never gives a candidate back to a loop, and a step that tries a
\* candidate takes it from those left and leaves it out afterwards.
TriesOnce ==
    /\ \A k \in 1..Len(stack) :
          k <= Len(stack') =>
              stack'[k].valid_placements \subseteq stack[k].valid_placements
    /\ Commits =>
          \A p \in Last(stack').last :
              /\ p \in Last(stack).valid_placements
              /\ p \notin Last(stack').valid_placements

\* C17: termination.  Every run of generate_puzzle eventually returns,
\* whether or not the timeout fires; the recursion depth never exceeds
\* len(words) + 1, and each level tries each of its candidates at most once.
C17_Termination == <>(pc = "done") /\ []DepthBounded /\ [][TriesOnce]_vars

\* A run in which the timeout check cannot have fired has returned success
\* on two or more words: the recursion went down to depth len(words) + 1.
C17_Witness ==
    /\ pc = "done"
    /\ timeout > MaxClock
    /\ result = TRUE
    /\ Len(words) >= 2

(* ------------------------------- C18 ---------------------------------- *)

\* The intersection count of a candidate of word w on board g: the letter
\* positions whose cell already holds the uppercased letter.
NormalizedCount(g, w, p) ==
    Intersections(g, grid_size, UpperWord(w), p.row, p.col, p.direction)

\* C18: ranked order.  At every level of _backtrack_solve, for words of any
\* letter case, the candidate a step tries has an intersection count (board
\* cells already holding the word's uppercased letter) at least that of every
\* candidate the level has still to try.
C18_RankedOrder ==
    [][Commits =>
         LET w == words[Last(stack).word_index + 1]
         IN  \A p \in Last(stack').last :
                 \A q \in Last(stack').valid_placements :
                     NormalizedCount(grid, w, p) >= NormalizedCount(grid, w, q)]_vars

(* ------------------------------- C19 ---------------------------------- *)

\* The input lists in every order: up to MaxWords words of the vocabulary,
\* duplicates allowed.
WordListsAnyOrder ==
    UNION {{[i \in 1..k |-> Vocabulary[f[i]]] : f \in [1..k -> 1..Len(Vocabulary)]} :
           k \in 0..MaxWords}

\* Engines constructed on lists in any order, run without timeout at one
\* reading of the clock.
InitAnyOrder ==
    \E wl \in WordListsAnyOrder, n \in 1..MaxN :
        /\ Branching(wl, n) <= MaxBranch
        /\ Constructed(wl, n, DefaultTimeout, MaxClock)

SpecAnyOrder == InitAnyOrder /\ [][Next]_vars

\* How often the word w, as written, occurs in seq.
Occurrences(seq, w) == Cardinality({i \in 1..Len(seq) : seq[i] = w})

\* C19: word ordering.  self.words is a permutation of the input list (same
\* multiset, duplicates kept) with non-increasing lengths, and it differs
\* from the length-sorted input only among words of equal length, for every
\* outcome of the shuffle.
C19_WordOrdering ==
    /\ Len(words) = Len(word_list)
    /\ \A i \in 1..Len(word_list) : 
          Occurrences(words, word_list[i]) = Occurrences(word_list, word_list[i])
    /\ \A i, j \in 1..Len(words) : i <= j => Len(words[i]) >= Len(words[j])
    /\ \A i \in 1..Len(words) : Len(words[i]) = Len(SortedByLen(word_list)[i])

\* The input was not sorted by length, and the shuffle has changed the order
\* of two different words of equal length.
C19_Witness ==
    /\ \E i, j \in 1..Len(word_list) : i < j /\ Len(word_list[i]) < Len(word_list[j])
    /\ words # SortedByLen(word_list)

(* ------------------------------- C20 ---------------------------------- *)

\* The (row, col, orientation) triples at which word w passes the validator
\* and the connectivity rule on the engine's present board.
PassingTriples(w) ==
    {t \in Triples(grid_size) :
        /\ can_place_word_scrabble(grid, grid_size, trie, w, t[1], t[2], t[3])
        /\ has_connection_to_existing(grid, grid_size, placed_words, w, t[1], t[2], t[3])}

\* The intersection count of w at a triple on the present board.
CountAt(w, t) == Intersections(grid, grid_size, UpperWord(w), t[1], t[2], t[3])

\* The Manhattan distance from the midpoint of w at a triple to the board
\* center (N // 2, N // 2).
DistanceAt(w, t) == distance_to_center(grid_size, UpperWord(w), t[1], t[2], t[3])

\* C20: center-distance ranking.  find_best_placement(word) returns None iff
\* no triple passes the validator and the connectivity rule; otherwise it
\* returns a passing triple with the maximum intersection count and, among
\* the triples with that count, one at the smallest distance from the center.
C20_CenterRanking ==
    \A c \in call :
        c.op = "find_best_placement" =>
            LET passing == PassingTriples(c.word)
                best    == <<c.row, c.col, c.direction>>
            IN  /\ (c.ret = "None") = (passing = {})
                /\ c.ret # "None" =>
                      /\ best \in passing
                      /\ \A t \in passing :
                            /\ CountAt(c.word, t) <= CountAt(c.word, best)
                            /\ CountAt(c.word, t) = CountAt(c.word, best) =>
                                  DistanceAt(c.word, best) <= DistanceAt(c.word, t)

(* ------------------------------- C21 ---------------------------------- *)

\* The maximal run of letters through a filled cell along its row.
RowRun(g, n, cell) == PerpendicularRun(g, n, cell, "down")

\* The maximal run of letters through a filled cell along its column.
ColumnRun(g, n, cell) == PerpendicularRun(g, n, cell, "across")

\* A run counts as a word when it has two or more letters; it is then
\* required to be in the Dictionary.
ValidRun(run) == Len(run) >= 2 => run \in Dictionary

\* Whether a maximal run of g begins at the filled cell, going by step: the
\* cell before it is off the board or empty.
BeginsRun(g, n, cell, step) ==
    LET prev == <<cell[1] - step[1], cell[2] - step[2]>>
    IN  ~OnBoard(n, prev[1], prev[2]) \/ g[prev[1]][prev[2]] = Empty

\* C21: whole-board word validity.  In every state of a search started on an
\* empty board, every maximal run of two or more letters in any row and in
\* any column of the grid is a word of the Dictionary.  (Each maximal run is
\* read once, from the cell where it begins.)
C21_WholeBoardValidity ==
    \A cell \in AllCells(grid_size) :
        grid[cell[1]][cell[2]] # Empty =>
            \A step \in {<<0, 1>>, <<1, 0>>} :
                BeginsRun(grid, grid_size, cell, step) =>
                    ValidRun(RunFrom(grid, grid_size, cell, step))

\* During a search two words cross: some cell lies on a row run and on a
\* column run of two or more letters each.
C21_Witness ==
    /\ pc \in {"call", "loop", "return"}
    /\ \E cell \in Occupied(grid, grid_size) :
          /\ Len(RowRun(grid, grid_size, cell)) >= 2
          /\ Len(ColumnRun(grid, grid_size, cell)) >= 2

(* ------------------------------- C22 ---------------------------------- *)

\* generate_puzzle called once more on an engine whose run has returned, up
\* to its call of _backtrack_solve(0): it reads the clock into start_time
\* and touches neither the grid nor placed_words.  earlier keeps the result,
\* grid and placed_words the engine had when the call was made.  One further
\* call is modelled.
GeneratePuzzleAgain ==
    /\ pc = "done"
    /\ earlier = {}
    /\ earlier' = {[result |-> result, grid |-> grid, placed_words |-> placed_words]}
    /\ \E t \in clock..MaxClock :
          /\ clock' = t
          /\ start_time' = t
    /\ arg' = 0
    /\ pc' = "call"
    /\ UNCHANGED <<config, call, grid, placed_words, stack, ret, result, oob>>

\* clear_grid, called while no search is running.
ClearGrid ==
    /\ pc \in {"idle", "done"}
    /\ grid' = EmptyGrid(grid_size)
    /\ placed_words' = << >>
    /\ UNCHANGED <<config, earlier, call, start_time, clock, stack, pc, arg, ret,
                   result, oob>>

NextAgain == Next \/ GeneratePuzzleAgain \/ ClearGrid

SpecAgain == Init /\ [][NextAgain]_vars

\* The step that makes the further call changes neither the grid nor
\* placed_words.
CallKeepsState == (pc = "done" /\ pc' = "call") => UNCHANGED <<grid, placed_words>>

\* The step by which the further call returns: against the state e the
\* engine had when the call was made, the entries of e.placed_words are still
\* the first entries; on success len(words) entries were appended and every
\* cell filled in e.grid holds the same letter; on failure nothing changed.
ReturnKeepsState ==
    (pc = "return" /\ pc' = "done") =>
        \A e \in earlier :
            LET k == Len(e.placed_words)
            IN  /\ Len(placed_words') >= k
                /\ SubSeq(placed_words', 1, k) = e.placed_words
                /\ result' =>
                      /\ Len(placed_words') = k + Len(words)
                      /\ \A cell \in Occupied(e.grid, grid_size) :
                            grid'[cell[1]][cell[2]] = e.grid[cell[1]][cell[2]]
                /\ ~result' =>
                      /\ placed_words' = e.placed_words
                      /\ grid' = e.grid

\* C22: generate_puzzle does not reset state.  A call of generate_puzzle on
\* an engine whose placed_words holds k entries starts from that state; when
\* it returns True the first k entries are unchanged, len(words) entries
\* have been appended and no cell filled before has changed; when it returns
\* False the grid and placed_words are as before the call.  Only clear_grid
\* empties them.
C22_NoReset == [][CallKeepsState /\ ReturnKeepsState]_vars

\* A second call, made on a board that held words, has returned True.
C22_Witness ==
    /\ pc = "done"
    /\ result = TRUE
    /\ \E e \in earlier :
          /\ Len(e.placed_words) > 0
          /\ Len(placed_words) = Len(e.placed_words) + Len(words)

====
